---- MODULE Spec2Model ----
(***************************************************************************)
(* Batch categorization pipeline of spend-streamlet:                       *)
(* categorize_lookup_table and retry_errors of src/src/functions.py.       *)
(*                                                                         *)
(* The working table is a sequence of rows (row r is identifier r, so the  *)
(* identifiers are unique); the completion service and the identity        *)
(* service are the environment: every call to them returns one of the      *)
(* outcomes the requests library can produce, chosen nondeterministically. *)
(* A token exchange either raises (transport error, non-success status) or *)
(* yields a token; a 200 from the completion service carries the service's *)
(* JSON envelope around a completion text, which is arbitrary.             *)
(***************************************************************************)
EXTENDS Integers, Sequences, FiniteSets, TLC

\* ------------------------------------------------------------------ bounds
NRows == 3
MaxRowsPerCall == 2
MaxEntries == 2
ConcurrencyLimit == 2

\* --------------------------------------------------------------- constants
\* functions.py:365  (i // rows_per_call + 1) % 10 == 0
CheckpointEvery == 10
\* functions.py:375-376  0.15 and 0.60 dollars per 1M tokens, in cents
InputCentsPerMillion == 15
OutputCentsPerMillion == 60

\* ------------------------------------------------------------------ values
Null == "null"
PARSE_ERROR == "PARSE_ERROR"
API_ERROR == "API_ERROR"
NoBatchSize == -1

NullRow == [category |-> Null, sub_category |-> Null]
LabelRow == [category |-> "Development", sub_category |-> "IDEs"]
ParseErrorRow == [category |-> PARSE_ERROR, sub_category |-> "Retry needed"]
ApiErrorRow == [category |-> API_ERROR, sub_category |-> "str(e)[:100]"]

Min(a, b) == IF a < b THEN a ELSE b

VARIABLES
    lookup_df,        \* the working table: row identifier -> [category, sub_category]
    pc,               \* position of the caller in categorize_lookup_table
    entry,            \* which entry point started the run
    token,            \* generation of the bearer credential in use (0: none)
    indices,          \* planned identifiers of the run, in table order
    rows_per_call,
    i,                \* loop variable of the batch loop (0, rows_per_call, ...)
    batch_indices,    \* identifiers of the batch being handled
    items,            \* the numbered lines of the request of the batch
    response,         \* reply to the last completion request of the batch
    item,             \* the entry of the decoded list the loop read last
    seen,             \* entries of the decoded list read so far
    conforming,       \* every entry read so far has the format the prompt asks for
    requests,         \* completion requests sent for the current batch
    refreshes,        \* credential refreshes triggered for the current batch
    replies,          \* the replies received for the current batch, in order
    outcome,          \* how the handling of the current batch ended
    processed_count,
    error_count,
    checkpoint,       \* the persisted table, <<>> while nothing was written
    df_at_call,       \* the table when the entry point was called
    df_at_batch,      \* the table when the current batch was dispatched
    sent,             \* identifiers sent to the completion service in this run
    batch_size,       \* the batch_size argument of the run (NoBatchSize: None)
    terminal,         \* rows whose batch had ended when the run before was interrupted
    tasks,            \* concurrent mode: state and result of the task of each batch
    total_input_tokens, \* encoded tokens of the requests counted so far
    total_output_tokens, \* encoded tokens of the completion texts counted so far
    total_cost,       \* cost of the run in 1e-8 dollars, computed when the loop ends
    sleeps,           \* pacing delays that have elapsed in this run
    headers,          \* Authorization header of the last request built
    unsaved,          \* batches of the run that are terminal and in no checkpoint yet
    exchanges         \* get_token calls of the run, failed ones included

vars == <<lookup_df, pc, entry, token, indices, rows_per_call, i, batch_indices,
          response, item, seen, conforming, requests, refreshes, replies,
          outcome, processed_count, error_count, checkpoint, df_at_call,
          df_at_batch, sent, batch_size, terminal, items,
          tasks,
          total_input_tokens,
          total_output_tokens,
          total_cost,
          sleeps,
          headers,
          unsaved,
          exchanges>>

Rows == 1..NRows
NoResponse == [status |-> "none", kind |-> "none"]
NoItem == [index |-> 0, shape |-> "none"]

\* ------------------------------------------------------------- the planner
\* A sentinel row counts as unprocessed too.
IsNa_OrSentinel(df, r) == df[r].category \in {Null, PARSE_ERROR, API_ERROR}

\* functions.py:274  lookup_df['category'].isna()
IsNa(df, r) == df[r].category = Null
IsError(df, r) == df[r].category \in {PARSE_ERROR, API_ERROR}

RECURSIVE Unprocessed_Descending(_, _)
\* The eligible identifiers collected last row first.
Unprocessed_Descending(df, r) ==
    IF r > Len(df) THEN <<>>
    ELSE Unprocessed_Descending(df, r + 1) \o (IF IsNa(df, r) THEN <<r>> ELSE <<>>)

RECURSIVE Unprocessed(_, _)
\* functions.py:274-275: the identifiers r..Len(df) of df whose category is null,
\* in table order.
Unprocessed(df, r) ==
    IF r > Len(df) THEN <<>>
    ELSE (IF IsNa(df, r) THEN <<r>> ELSE <<>>) \o Unprocessed(df, r + 1)

Head_n(s, n) == SubSeq(s, 1, Min(n, Len(s)))

\* functions.py:274-278
RowsToProcess(df, size) ==
    LET unprocessed == Unprocessed(df, 1)
    IN IF size # NoBatchSize /\ size # 0
       THEN Head_n(unprocessed, size)
       ELSE unprocessed

\* The slice taken one identifier too long: indices[i:i + rows_per_call + 1].
BatchIndices_OneTooLong(idx, k, rpc) == SubSeq(idx, k + 1, Min(k + rpc + 1, Len(idx)))

\* functions.py:292  indices[i:i + rows_per_call]
BatchIndices(idx, k, rpc) == SubSeq(idx, k + 1, Min(k + rpc, Len(idx)))

Range(s) == {s[k] : k \in 1..Len(s)}

\* The lines numbered from 1: enumerate(batch_rows.iterrows(), 1).
Items_OneBased(batch) == [j \in 1..Len(batch) |-> [number |-> j, idx |-> batch[j]]]

\* functions.py:293-301: one line per row of lookup_df.loc[batch_indices], in
\* that order, numbered by enumerate from 0; idx is the row the line describes.
Items(batch) == [j \in 1..Len(batch) |-> [number |-> j - 1, idx |-> batch[j]]]

\* ---------------------------------------------------------- token telemetry
\* functions.py:304-305  len(encoding.encode(system_prompt + user_message)):
\* the prompt (counted as one token) and one token per request line.
InputTokens(lines) == 1 + Len(lines)

\* functions.py:338  len(encoding.encode(ai_response)): a list is a longer text
\* than a text that is no list.
OutputTokens(resp) == IF resp.kind = "list" THEN 2 ELSE 1

\* tokens.py:30-33, in cents per 1M tokens
Pricing ==
    [gpt_4o_mini |-> [input |-> 15, output |-> 60],
     gpt_4o |-> [input |-> 250, output |-> 1000]]

\* The two prices exchanged.
RunPrice_Swapped ==
    [input |-> OutputCentsPerMillion, output |-> InputCentsPerMillion]

\* functions.py:375-376: the prices the run is billed at.
RunPrice == [input |-> InputCentsPerMillion, output |-> OutputCentsPerMillion]

\* functions.py:375-377 and tokens.py:38-40:
\* (input / 1_000_000) * price.input + (output / 1_000_000) * price.output,
\* as an exact number of 1e-8 dollars (a cent per million is 1e-8 dollars per
\* token).
CostOf(input, output, price) == input * price.input + output * price.output

\* ------------------------------------------------- the environment's replies
\* What one completion request can come back with: the post raises a transport
\* exception, or returns 401, another failure status (4xx/5xx), or 200 with a
\* completion text. A completion text is not JSON at all, JSON that is no list
\* (a number, a bare object), or a JSON list of entries.
Statuses == {"200", "401", "500", "transport"}
Kinds == {"not_json", "non_list", "list"}

Replies ==
    {[status |-> st, kind |-> "none"] : st \in Statuses \ {"200"}}
        \cup {[status |-> "200", kind |-> k] : k \in Kinds}

\* An entry of a decoded list: an object with index, category and sub_category
\* ("ok"), one lacking sub_category, or one lacking index.
Shapes == {"ok", "no_sub_category"}

\* The local indices an entry may carry for a batch of n rows: the positions
\* 0..n-1, the first one past the end, -1 and one below -n.
IndexChoices(n) == {-(n + 1), -1} \cup 0..n

Entries(n) ==
    {[index |-> x, shape |-> s] : x \in IndexChoices(n), s \in Shapes}
        \cup {[index |-> 0, shape |-> "no_index"]}

\* ------------------------------------------------ applying a parsed response
\* functions.py:345  item['index'] < len(batch_indices)
IndexAccepted(index, n) == index < n

\* functions.py:346  batch_indices[item['index']]: a Python list subscript, which
\* counts a negative index from the end and raises IndexError below -len.
Subscriptable(index, n) == -n <= index /\ index < n
ListItem(batch, index) ==
    IF index < 0 THEN batch[Len(batch) + index + 1] ELSE batch[index + 1]

\* functions.py:345-349: one iteration of the loop over the decoded entries.
\* Yields the table, the processed count and whether an exception escaped
\* (KeyError for a missing key, IndexError for a subscript below -len).
ApplyItem(df, batch, it, count) ==
    LET n == Len(batch)
    IN IF it.shape = "no_index"
       THEN [df |-> df, count |-> count, raised |-> TRUE]
       ELSE IF ~IndexAccepted(it.index, n)
       THEN [df |-> df, count |-> count, raised |-> FALSE]
       ELSE IF ~Subscriptable(it.index, n)
       THEN [df |-> df, count |-> count, raised |-> TRUE]
       ELSE LET actual_idx == ListItem(batch, it.index)
                df1 == [df EXCEPT ![actual_idx].category = LabelRow.category]
                df2 == [df1 EXCEPT ![actual_idx].sub_category = LabelRow.sub_category]
            IN IF it.shape = "no_sub_category"
               THEN [df |-> df1, count |-> count, raised |-> TRUE]
               ELSE [df |-> df2, count |-> count + 1, raised |-> FALSE]

\* Only the first row of the batch gets the sentinel.
MarkBatch_FirstRowOnly(df, batch, row) ==
    [r \in DOMAIN df |-> IF r = batch[1] THEN row ELSE df[r]]

\* functions.py:354-356 and 360-362
MarkBatch(df, batch, row) ==
    [r \in DOMAIN df |-> IF r \in Range(batch) THEN row ELSE df[r]]

\* functions.py:327
NeedsRefresh(status) == status = "401"

\* The reply to the resent request is dropped and the 401 kept.
ResponseAfterResend_Dropped(old, new) == old

\* functions.py:331  response = requests.post(...): the reply to the resent
\* request replaces the 401.
ResponseAfterResend(old, new) == new

\* A 401 is taken to have been dealt with by the refresh and raises nothing.
RaisesRequestException_Not401(status) == status \notin {"200", "401"}

\* functions.py:333 raise_for_status: every reply but a 200 raises a
\* RequestException (as does a refresh whose token exchange failed).
RaisesRequestException(status) == status # "200"

\* functions.py:342 json.loads raises JSONDecodeError
RaisesJSONDecodeError(resp) == resp.kind = "not_json"

\* ------------------------------------------------------------------- Init
\* The caller's table: every row unprocessed, labelled, or carrying a sentinel
\* of an earlier run (PARSE_ERROR on the odd rows, API_ERROR on the even ones).
InitialRows(r) ==
    {NullRow, LabelRow, IF r % 2 = 1 THEN ParseErrorRow ELSE ApiErrorRow}

InitialTables ==
    {t \in [Rows -> {NullRow, LabelRow, ParseErrorRow, ApiErrorRow}] :
        \A r \in Rows : t[r] \in InitialRows(r)}

InitWith(tables) ==
    /\ lookup_df \in tables
    /\ pc = "idle"
    /\ entry = "none"
    /\ token = 0
    /\ indices = <<>>
    /\ rows_per_call = 1
    /\ i = 0
    /\ batch_indices = <<>>
    /\ items = <<>>
    /\ response = NoResponse
    /\ item = NoItem
    /\ seen = 0
    /\ conforming = TRUE
    /\ requests = 0
    /\ refreshes = 0
    /\ replies = <<>>
    /\ outcome = "none"
    /\ processed_count = 0
    /\ error_count = 0
    /\ checkpoint = <<>>
    /\ df_at_call = lookup_df
    /\ df_at_batch = lookup_df
    /\ sent = {}
    /\ batch_size = NoBatchSize
    /\ terminal = {}
    /\ tasks = <<>>
    /\ total_input_tokens = 0
    /\ total_output_tokens = 0
    /\ total_cost = 0
    /\ sleeps = 0
    /\ headers = [scheme |-> "none", credential |-> 0]
    /\ unsaved = 0
    /\ exchanges = 0

Init == InitWith(InitialTables)

\* ---------------------------------------------------------------- actions
\* A token exchange that fails is not noticed: the run goes on without a token.
Begin_TokenFailureIgnored(df, size, rpc, token_ok) ==
    LET plan == RowsToProcess(df, size)
    IN /\ lookup_df' = df
       /\ exchanges' = 1
       /\ unsaved' = 0
       /\ headers' = [scheme |-> "none", credential |-> 0]
       /\ sleeps' = 0
       /\ total_cost' = 0
       /\ total_output_tokens' = 0
       /\ total_input_tokens' = 0
       /\ UNCHANGED tasks
       /\ batch_size' = size
       /\ df_at_call' = lookup_df
       /\ sent' = {}
       /\ rows_per_call' = rpc
       /\ i' = 0
       /\ processed_count' = 0
       /\ error_count' = 0
       /\ token' = IF token_ok THEN token + 1 ELSE token
       /\ indices' = plan
       /\ pc' = IF Len(plan) = 0 THEN "done" ELSE "pending"
       /\ UNCHANGED <<batch_indices, items, response, item, seen, conforming,
                      requests, refreshes, replies, outcome, checkpoint,
                      df_at_batch>>

\* functions.py:56-289: the token exchange, the planning and the early return
\* of categorize_lookup_table called on table df.
Begin(df, size, rpc, token_ok) ==
    LET plan == RowsToProcess(df, size)
    IN /\ lookup_df' = df
       /\ exchanges' = 1
       /\ unsaved' = 0
       /\ headers' = [scheme |-> "none", credential |-> 0]
       /\ sleeps' = 0
       /\ total_cost' = 0
       /\ total_output_tokens' = 0
       /\ total_input_tokens' = 0
       /\ UNCHANGED tasks
       /\ batch_size' = size
       /\ df_at_call' = lookup_df
       /\ sent' = {}
       /\ rows_per_call' = rpc
       /\ i' = 0
       /\ processed_count' = 0
       /\ error_count' = 0
       /\ IF ~token_ok
          THEN /\ pc' = "aborted"
               /\ UNCHANGED <<token, indices>>
          ELSE /\ token' = token + 1
               /\ indices' = plan
               /\ pc' = IF Len(plan) = 0 THEN "done" ELSE "pending"
       /\ UNCHANGED <<batch_indices, items, response, item, seen, conforming,
                      requests, refreshes, replies, outcome, checkpoint,
                      df_at_batch>>

\* categorize_lookup_table(lookup_df, batch_size, rows_per_call=rpc), the
\* arguments drawn from the given sets.
CategorizeWith(batch_sizes, rpcs) ==
    /\ pc = "idle"
    /\ \E size \in batch_sizes, rpc \in rpcs, token_ok \in BOOLEAN :
          /\ entry' = "categorize"
          /\ terminal' = {}
          /\ Begin(lookup_df, size, rpc, token_ok)

Categorize == CategorizeWith({NoBatchSize} \cup 0..NRows, 1..MaxRowsPerCall)

\* functions.py:404-405
ErrorRows(df) == {r \in DOMAIN df : IsError(df, r)}

\* functions.py:414-415
ClearErrors(df) == [r \in DOMAIN df |-> IF IsError(df, r) THEN NullRow ELSE df[r]]

\* The retry batched as wide as an ordinary run may be.
RetryRowsPerCall_Max == MaxRowsPerCall

\* functions.py:418  rows_per_call=1
RetryRowsPerCall == 1

\* retry_errors(lookup_df), functions.py:399-418
RetryErrors ==
    /\ pc = "idle"
    /\ entry' = "retry"
    /\ LET n_errors == Cardinality(ErrorRows(lookup_df))
       IN IF n_errors = 0
          THEN /\ pc' = "done"
               /\ df_at_call' = lookup_df
               /\ sent' = {}
               /\ UNCHANGED exchanges
               /\ UNCHANGED unsaved
               /\ UNCHANGED headers
               /\ UNCHANGED sleeps
               /\ UNCHANGED total_cost
               /\ UNCHANGED total_output_tokens
               /\ UNCHANGED total_input_tokens
               /\ UNCHANGED tasks
               /\ UNCHANGED <<lookup_df, token, indices, rows_per_call, i,
                              batch_indices, response, item, seen, conforming, requests,
                              refreshes, replies, outcome, processed_count,
                              error_count, checkpoint, df_at_batch,
                              batch_size, items>>
          ELSE \E token_ok \in BOOLEAN :
                  Begin(ClearErrors(lookup_df), n_errors, RetryRowsPerCall,
                        token_ok)
    /\ terminal' = {}

\* A header that keeps the credential of the first exchange.
Authorization_Stale(tok) == [scheme |-> "Bearer", credential |-> 1]

\* functions.py:309-311 and 330: the Authorization header built from the
\* credential in hand.
Authorization(tok) == [scheme |-> "Bearer", credential |-> tok]

\* functions.py:291-324: the batch is cut, the request built and posted.
PostCompletionWith(answers) ==
    /\ UNCHANGED exchanges
    /\ UNCHANGED unsaved
    /\ headers' = Authorization(token)
    /\ UNCHANGED sleeps
    /\ UNCHANGED total_cost
    /\ UNCHANGED total_output_tokens
    /\ UNCHANGED tasks
    /\ pc = "pending"
    /\ batch_indices' = BatchIndices(indices, i, rows_per_call)
    /\ items' = Items(batch_indices')
    /\ total_input_tokens' = total_input_tokens + InputTokens(items')
    /\ sent' = sent \cup Range(batch_indices')
    /\ \E r \in answers :
          /\ response' = r
          /\ replies' = <<r>>
    /\ requests' = 1
    /\ refreshes' = 0
    /\ outcome' = "none"
    /\ item' = NoItem
    /\ seen' = 0
    /\ conforming' = TRUE
    /\ df_at_batch' = lookup_df
    /\ pc' = "replied"
    /\ UNCHANGED <<lookup_df, entry, token, indices, rows_per_call, i,
                   processed_count, error_count, checkpoint, df_at_call,
                   batch_size, terminal>>

PostCompletion == PostCompletionWith(Replies)

\* A refresh that is repeated for as long as the answer is a 401.
RefreshAndResend_Repeated ==
    /\ exchanges' = exchanges + 1
    /\ UNCHANGED unsaved
    /\ UNCHANGED sleeps
    /\ UNCHANGED total_cost
    /\ UNCHANGED total_output_tokens
    /\ UNCHANGED total_input_tokens
    /\ UNCHANGED tasks
    /\ pc = "replied"
    /\ NeedsRefresh(response.status)
    /\ refreshes' = refreshes + 1
    /\ \E token_ok \in BOOLEAN :
          IF ~token_ok
          THEN /\ response' = [NoResponse EXCEPT !.status = "token_failed"]
               /\ UNCHANGED <<token, requests, replies, headers>>
          ELSE /\ token' = token + 1
               /\ headers' = Authorization(token')
               /\ requests' = requests + 1
               /\ \E r \in Replies :
                     /\ response' = ResponseAfterResend(response, r)
                     /\ replies' = Append(replies, r)
    /\ pc' = "replied"
    /\ UNCHANGED <<lookup_df, entry, indices, rows_per_call, i, batch_indices,
                   item, seen, conforming, outcome, processed_count, error_count,
                   checkpoint, df_at_call, df_at_batch, sent, batch_size,
                   terminal, items>>

\* functions.py:327-331: on a 401 the token is exchanged again and the same
\* request is posted once more; a failed exchange raises a RequestException.
RefreshAndResend ==
    /\ exchanges' = exchanges + 1
    /\ UNCHANGED unsaved
    /\ UNCHANGED sleeps
    /\ UNCHANGED total_cost
    /\ UNCHANGED total_output_tokens
    /\ UNCHANGED total_input_tokens
    /\ UNCHANGED tasks
    /\ pc = "replied"
    /\ NeedsRefresh(response.status)
    /\ refreshes' = refreshes + 1
    /\ \E token_ok \in BOOLEAN :
          IF ~token_ok
          THEN /\ response' = [NoResponse EXCEPT !.status = "token_failed"]
               /\ UNCHANGED <<token, requests, replies, headers>>
          ELSE /\ token' = token + 1
               /\ headers' = Authorization(token')
               /\ requests' = requests + 1
               /\ \E r \in Replies :
                     /\ response' = ResponseAfterResend(response, r)
                     /\ replies' = Append(replies, r)
    /\ pc' = "checked"
    /\ UNCHANGED <<lookup_df, entry, indices, rows_per_call, i, batch_indices,
                   item, seen, conforming, outcome, processed_count, error_count,
                   checkpoint, df_at_call, df_at_batch, sent, batch_size,
                   terminal, items>>

\* functions.py:333-342 and 351-362: raise_for_status, decoding, and the two
\* except clauses. An exception neither clause names (here the TypeError of
\* looping over a decoded value that is no list of objects) leaves
\* categorize_lookup_table.
HandleResponse ==
    /\ UNCHANGED exchanges
    /\ unsaved' =
          IF RaisesRequestException(response.status)
             \/ RaisesJSONDecodeError(response)
          THEN unsaved + 1 ELSE unsaved
    /\ UNCHANGED headers
    /\ UNCHANGED sleeps
    /\ UNCHANGED total_cost
    /\ total_output_tokens' =
          IF RaisesRequestException(response.status)
          THEN total_output_tokens
          ELSE total_output_tokens + OutputTokens(response)
    /\ UNCHANGED total_input_tokens
    /\ UNCHANGED tasks
    /\ \/ pc = "checked"
       \/ pc = "replied" /\ ~NeedsRefresh(response.status)
    /\ LET n == Len(batch_indices)
       IN IF RaisesRequestException(response.status)
          THEN /\ lookup_df' = MarkBatch(lookup_df, batch_indices, ApiErrorRow)
               /\ error_count' = error_count + n
               /\ outcome' = "ApiFailed"
               /\ pc' = "handled"
          ELSE IF RaisesJSONDecodeError(response)
          THEN /\ lookup_df' = MarkBatch(lookup_df, batch_indices, ParseErrorRow)
               /\ error_count' = error_count + n
               /\ outcome' = "ParseFailed"
               /\ pc' = "handled"
          ELSE IF response.kind = "non_list"
          THEN /\ outcome' = "Crashed"
               /\ pc' = "crashed"
               /\ UNCHANGED <<lookup_df, error_count>>
          ELSE /\ pc' = "applying"
               /\ UNCHANGED <<lookup_df, error_count, outcome>>
    /\ UNCHANGED <<entry, token, indices, rows_per_call, i, batch_indices,
                   response, item, seen, conforming, requests, refreshes,
                   replies, processed_count, checkpoint, df_at_call,
                   df_at_batch, sent, batch_size, terminal, items>>

\* functions.py:266-270: the format the prompt asks of an entry: an object with
\* a 0-based index, a category and a sub_category.
Conforming(it) == it.shape = "ok" /\ it.index >= 0

\* functions.py:344-349: the loop reads the next entry of the decoded list,
\* which is one of `its`. The entries are drawn as the loop reaches them: it
\* reads each once, in order.
ReadEntry(its) ==
    /\ UNCHANGED exchanges
    /\ UNCHANGED unsaved
    /\ UNCHANGED headers
    /\ UNCHANGED sleeps
    /\ UNCHANGED total_cost
    /\ UNCHANGED total_output_tokens
    /\ UNCHANGED total_input_tokens
    /\ UNCHANGED tasks
    /\ pc = "applying"
    /\ seen' = seen + 1
    /\ \E it \in its :
          LET applied == ApplyItem(lookup_df, batch_indices, it, processed_count)
          IN /\ item' = it
             /\ conforming' = (conforming /\ Conforming(it))
             /\ lookup_df' = applied.df
             /\ processed_count' = applied.count
             /\ outcome' = IF applied.raised THEN "Crashed" ELSE outcome
             /\ pc' = IF applied.raised THEN "crashed" ELSE pc
    /\ UNCHANGED <<entry, token, indices, rows_per_call, i, batch_indices,
                   response, requests, refreshes, replies, error_count,
                   checkpoint, df_at_call, df_at_batch, sent, batch_size,
                   terminal, items>>

ApplyEntry ==
    /\ seen < MaxEntries
    /\ ReadEntry(Entries(Len(batch_indices)))

\* functions.py:344: the decoded list is exhausted.
EndOfEntries ==
    /\ UNCHANGED exchanges
    /\ unsaved' = unsaved + 1
    /\ UNCHANGED headers
    /\ UNCHANGED sleeps
    /\ UNCHANGED total_cost
    /\ UNCHANGED total_output_tokens
    /\ UNCHANGED total_input_tokens
    /\ UNCHANGED tasks
    /\ pc = "applying"
    /\ outcome' = "Applied"
    /\ pc' = "handled"
    /\ UNCHANGED <<lookup_df, entry, token, indices, rows_per_call, i,
                   batch_indices, response, item, seen, conforming, requests,
                   refreshes, replies, processed_count, error_count,
                   checkpoint, df_at_call, df_at_batch, sent, batch_size,
                   terminal, items>>

\* The delay sits inside the try block and is skipped when it raises.
DelayApplies_AppliedOnly(result) == result = "Applied"

\* functions.py:369  time.sleep(delay): the last statement of the loop body,
\* after the try statement, reached whatever the outcome of the batch.
DelayApplies(result) == result \in {"Applied", "ParseFailed", "ApiFailed"}

\* A cadence of twelve batches.
CheckpointDue_EveryTwelve(k, rpc) == ((k \div rpc) + 1) % 12 = 0

\* functions.py:365
CheckpointDue(k, rpc) == ((k \div rpc) + 1) % CheckpointEvery = 0

\* functions.py:364-372: the periodic checkpoint, the pacing delay, the next
\* iteration, and after the last batch the final checkpoint and the return.
\* The locals of the iteration are dead from here on and are reset.
EndBatch ==
    /\ UNCHANGED exchanges
    /\ unsaved' =
          IF i + rows_per_call >= Len(indices) \/ CheckpointDue(i, rows_per_call)
          THEN 0 ELSE unsaved
    /\ UNCHANGED headers
    /\ sleeps' = IF DelayApplies(outcome) THEN sleeps + 1 ELSE sleeps
    /\ total_cost' =
          IF i + rows_per_call >= Len(indices)
          THEN CostOf(total_input_tokens, total_output_tokens, RunPrice)
          ELSE total_cost
    /\ UNCHANGED total_output_tokens
    /\ UNCHANGED total_input_tokens
    /\ UNCHANGED tasks
    /\ pc = "handled"
    /\ i' = i + rows_per_call
    /\ IF i' >= Len(indices)
       THEN /\ checkpoint' = lookup_df
            /\ pc' = "done"
       ELSE /\ checkpoint' = IF CheckpointDue(i, rows_per_call)
                             THEN lookup_df ELSE checkpoint
            /\ pc' = "pending"
    /\ batch_indices' = <<>>
    /\ items' = <<>>
    /\ response' = NoResponse
    /\ item' = NoItem
    /\ seen' = 0
    /\ conforming' = TRUE
    /\ requests' = 0
    /\ refreshes' = 0
    /\ replies' = <<>>
    /\ outcome' = "none"
    /\ df_at_batch' = lookup_df
    /\ UNCHANGED <<lookup_df, entry, token, indices, rows_per_call,
                   processed_count, error_count, df_at_call, sent,
                   batch_size, terminal>>

Next ==
    \/ Categorize
    \/ RetryErrors
    \/ PostCompletion
    \/ RefreshAndResend
    \/ HandleResponse
    \/ ApplyEntry
    \/ EndOfEntries
    \/ EndBatch

Spec == Init /\ [][Next]_vars

\* ------------------------------------------- the 25-row scenario
\* One run of categorize_lookup_table(lookup_df, rows_per_call=10) on a table of
\* 25 unprocessed rows. The completion service may fail in every way it can in
\* Spec; a decoded list names the rows of the batch in order, may stop early,
\* and any of its entries may lack sub_category.
ScenarioTable == [r \in 1..25 |-> NullRow]

ScenarioInit == InitWith({ScenarioTable})

ScenarioCategorize == CategorizeWith({NoBatchSize}, {10})

ScenarioEntries(k) == {[index |-> k, shape |-> sh] : sh \in Shapes}

ScenarioApplyEntry ==
    /\ seen < Len(batch_indices)
    /\ ReadEntry(ScenarioEntries(seen))

ScenarioNext ==
    \/ ScenarioCategorize
    \/ PostCompletion
    \/ RefreshAndResend
    \/ HandleResponse
    \/ ScenarioApplyEntry
    \/ EndOfEntries
    \/ EndBatch

SpecScenario == ScenarioInit /\ [][ScenarioNext]_vars

\* ------------------------------------------- interruption and resume
\* One run of categorize_lookup_table(lookup_df, rows_per_call=1) on a table of
\* 14 unprocessed rows, against a completion service that answers every request
\* with the complete list the prompt asks for. The process may be stopped while
\* it sleeps between two batches (functions.py:369); the table in memory is then
\* lost, and a new run is started on the table read back from checkpoint_path.
ResumeTable == [r \in 1..14 |-> NullRow]

ResumeInit == InitWith({ResumeTable})

ResumeCategorize == CategorizeWith({NoBatchSize}, {1})

ResumePostCompletion == PostCompletionWith({[status |-> "200", kind |-> "list"]})

ResumeApplyEntry ==
    /\ seen < Len(batch_indices)
    /\ ReadEntry({[index |-> seen, shape |-> "ok"]})

ResumeEndOfEntries ==
    /\ seen = Len(batch_indices)
    /\ EndOfEntries

\* The run is stopped between two batches and categorize_lookup_table is called
\* again, with the same arguments, on the persisted table.
Resume ==
    /\ pc = "pending"
    /\ entry = "categorize"
    /\ checkpoint # <<>>
    /\ entry' = "resume"
    /\ terminal' = sent
    /\ \E token_ok \in BOOLEAN :
          Begin(checkpoint, batch_size, rows_per_call, token_ok)

ResumeNext ==
    \/ ResumeCategorize
    \/ ResumePostCompletion
    \/ HandleResponse
    \/ ResumeApplyEntry
    \/ ResumeEndOfEntries
    \/ EndBatch
    \/ Resume

SpecResume == ResumeInit /\ [][ResumeNext]_vars

\* ------------------------------------------------------- concurrent mode
\* The asynchronous counterpart of categorize_lookup_table, as the
\* specification describes it: the plan is cut into the same batches, one task
\* per batch; a task sends its request once it holds one of ConcurrencyLimit
\* permits; a task whose request or decoding fails yields an empty result; the
\* results are merged into the table when every task has completed. There is
\* no checkpoint in this mode.
NumBatches(idx, rpc) == (Len(idx) + rpc - 1) \div rpc
TaskBatch(k) == BatchIndices(indices, (k - 1) * rows_per_call, rows_per_call)
InFlight(ts) == {k \in 1..Len(ts) : ts[k].state = "in_flight"}

\* The merge does not wait for the tasks still running.
AllJoined_AnyDone(ts) == \E k \in 1..Len(ts) : ts[k].state = "done"

\* All tasks are awaited jointly.
AllJoined(ts) == \A k \in 1..Len(ts) : ts[k].state = "done"

\* The rows of the batches whose task produced labels get them.
Merged(df, ts) ==
    [r \in DOMAIN df |->
        IF \E k \in 1..Len(ts) : ts[k].result = "labels" /\ r \in Range(TaskBatch(k))
        THEN LabelRow ELSE df[r]]

\* The batches are planned and every task is created.
ConcurrentBegin ==
    /\ UNCHANGED exchanges
    /\ UNCHANGED unsaved
    /\ UNCHANGED headers
    /\ UNCHANGED sleeps
    /\ UNCHANGED <<total_input_tokens, total_output_tokens, total_cost>>
    /\ pc = "idle"
    /\ entry' = "concurrent"
    /\ df_at_call' = lookup_df
    /\ \E rpc \in 1..MaxRowsPerCall :
          LET plan == RowsToProcess(lookup_df, NoBatchSize)
          IN /\ indices' = plan
             /\ rows_per_call' = rpc
             /\ tasks' = [k \in 1..NumBatches(plan, rpc) |->
                             [state |-> "waiting", result |-> "none"]]
             /\ pc' = IF Len(plan) = 0 THEN "done" ELSE "gathering"
    /\ UNCHANGED <<lookup_df, token, i, batch_indices, items, response, item,
                   seen, conforming, requests, refreshes, replies, outcome,
                   processed_count, error_count, checkpoint, df_at_batch, sent,
                   batch_size, terminal>>

\* Task k takes a permit and sends the request of its batch.
Acquire(k) ==
    /\ UNCHANGED exchanges
    /\ UNCHANGED unsaved
    /\ UNCHANGED headers
    /\ UNCHANGED sleeps
    /\ UNCHANGED <<total_input_tokens, total_output_tokens, total_cost>>
    /\ pc = "gathering"
    /\ tasks[k].state = "waiting"
    /\ Cardinality(InFlight(tasks)) < ConcurrencyLimit
    /\ tasks' = [tasks EXCEPT ![k].state = "in_flight"]
    /\ sent' = sent \cup Range(TaskBatch(k))
    /\ UNCHANGED <<lookup_df, pc, entry, token, indices, rows_per_call, i,
                   batch_indices, items, response, item, seen, conforming,
                   requests, refreshes, replies, outcome, processed_count,
                   error_count, checkpoint, df_at_call, df_at_batch,
                   batch_size, terminal>>

\* Task k completes and gives its permit back: with the labels of its batch,
\* or, its failure caught, with an empty result.
Complete(k) ==
    /\ UNCHANGED exchanges
    /\ UNCHANGED unsaved
    /\ UNCHANGED headers
    /\ UNCHANGED sleeps
    /\ UNCHANGED <<total_input_tokens, total_output_tokens, total_cost>>
    /\ pc = "gathering"
    /\ tasks[k].state = "in_flight"
    /\ \E res \in {"labels", "empty"} :
          tasks' = [tasks EXCEPT ![k] = [state |-> "done", result |-> res]]
    /\ UNCHANGED <<lookup_df, pc, entry, token, indices, rows_per_call, i,
                   batch_indices, items, response, item, seen, conforming,
                   requests, refreshes, replies, outcome, processed_count,
                   error_count, checkpoint, df_at_call, df_at_batch, sent,
                   batch_size, terminal>>

\* Join, then merge.
Merge ==
    /\ UNCHANGED exchanges
    /\ UNCHANGED unsaved
    /\ UNCHANGED headers
    /\ UNCHANGED sleeps
    /\ UNCHANGED <<total_input_tokens, total_output_tokens, total_cost>>
    /\ pc = "gathering"
    /\ AllJoined(tasks)
    /\ lookup_df' = Merged(lookup_df, tasks)
    /\ pc' = "done"
    /\ UNCHANGED <<entry, token, indices, rows_per_call, i, batch_indices,
                   items, response, item, seen, conforming, requests,
                   refreshes, replies, outcome, processed_count, error_count,
                   checkpoint, df_at_call, df_at_batch, sent, batch_size,
                   terminal, tasks>>

ConcurrentNext ==
    \/ ConcurrentBegin
    \/ \E k \in 1..Len(tasks) : Acquire(k)
    \/ \E k \in 1..Len(tasks) : Complete(k)
    \/ Merge

SpecConcurrent == Init /\ [][ConcurrentNext]_vars

\* ------------------------------------------------------ the cost of a run
\* The end of a run of categorize_lookup_table(lookup_df, rows_per_call=1) on
\* NRows unprocessed rows: the last batch has just failed with a 500, as did
\* the batches before it (but the first, when any completion text was counted).
\* The texts may be of any length, so the token totals are drawn from
\* InputTotals and OutputTotals.
InputTotals == {NRows + 1, 1000, 500000, 999999, 1000000, 1000001, 2000000, 20000000}
OutputTotals == {0, 1, 50, 1000, 500000, 1000000, 2000000, 20000000}

CostInit ==
    /\ exchanges = 1
    /\ unsaved = NRows
    /\ headers = Authorization(1)
    /\ sleeps = NRows - 1
    /\ total_input_tokens \in InputTotals
    /\ total_output_tokens \in OutputTotals
    /\ total_cost = 0
    /\ lookup_df = [r \in Rows |-> IF r = 1 /\ total_output_tokens > 0
                                   THEN LabelRow ELSE ApiErrorRow]
    /\ pc = "handled"
    /\ entry = "categorize"
    /\ token = 1
    /\ indices = [r \in Rows |-> r]
    /\ rows_per_call = 1
    /\ i = NRows - 1
    /\ batch_indices = <<NRows>>
    /\ items = Items(<<NRows>>)
    /\ response = [status |-> "500", kind |-> "none"]
    /\ item = NoItem
    /\ seen = 0
    /\ conforming = TRUE
    /\ requests = 1
    /\ refreshes = 0
    /\ replies = <<[status |-> "500", kind |-> "none"]>>
    /\ outcome = "ApiFailed"
    /\ processed_count = (IF total_output_tokens > 0 THEN 1 ELSE 0)
    /\ error_count = NRows - processed_count
    /\ checkpoint = <<>>
    /\ df_at_call = [r \in Rows |-> NullRow]
    /\ df_at_batch = [lookup_df EXCEPT ![NRows] = NullRow]
    /\ sent = Rows
    /\ batch_size = NoBatchSize
    /\ terminal = {}
    /\ tasks = <<>>

CostNext == EndBatch

SpecCost == CostInit /\ [][CostNext]_vars

\* ------------------------------------------------------------ the claims
Sentinel(df, r) == df[r].category \in {PARSE_ERROR, API_ERROR}
BatchHandled == outcome # "none"
BatchRows == Range(batch_indices)

\* C1 - retry isolation: in a run started by retry_errors, a row whose category
\* was not PARSE_ERROR or API_ERROR when retry_errors was called (a null row
\* included) is neither sent to the completion service nor modified.
C1_RetryTouchesOnlySentinelRows ==
    entry = "retry" =>
        \A r \in DOMAIN lookup_df :
            ~Sentinel(df_at_call, r) => r \notin sent /\ lookup_df[r] = df_at_call[r]

\* C2 - when a run started by retry_errors has returned, the rows it sent to
\* the completion service are exactly the rows that were in an error-sentinel
\* state when it was called.
C2_RetrySendsExactlySentinelRows ==
    (entry = "retry" /\ pc = "done") => sent = ErrorRows(df_at_call)

\* C3 - a step of the loop over the decoded entries that reads an entry whose
\* index is not in 0..(batch row count - 1), negative values included, leaves
\* the working table as it was.
C3_OutOfRangeIndexIgnored ==
    [][(pc = "applying" /\ seen' = seen + 1 /\ item'.shape # "no_index"
            /\ item'.index \notin 0..(Len(batch_indices) - 1))
        => lookup_df' = lookup_df]_vars

\* The completion text is not a list of objects each carrying index, category
\* and sub_category: it does not decode, decodes to something else, or the
\* entry read last lacks a key.
Malformed ==
    \/ response.kind \in {"not_json", "non_list"}
    \/ item.shape \in {"no_index", "no_sub_category"}

\* C4 - a malformed response never crashes the run: once a batch whose reply
\* was a 200 with a malformed completion text has been handled, every row of
\* the batch is marked PARSE_ERROR and the run is still going.
C4_MalformedMarksParseError ==
    (BatchHandled /\ response.status = "200" /\ Malformed) =>
        /\ outcome = "ParseFailed"
        /\ pc = "handled"
        /\ \A r \in BatchRows : lookup_df[r].category = PARSE_ERROR

\* C5 - a response is applied atomically: once a batch has been handled, either
\* its entries were all applied (and no row flagged), or the whole batch is
\* flagged and no entry was written; in no state were some entries of a
\* response written and the rest abandoned.
C5_ResponseAppliedAtomically ==
    BatchHandled =>
        \/ outcome = "Applied" /\ \A r \in BatchRows : ~Sentinel(lookup_df, r)
        \/ /\ outcome = "ParseFailed"
           /\ lookup_df = MarkBatch(df_at_batch, batch_indices, ParseErrorRow)
        \/ /\ outcome = "ApiFailed"
           /\ lookup_df = MarkBatch(df_at_batch, batch_indices, ApiErrorRow)
        \/ /\ outcome = "Crashed"
           /\ lookup_df = df_at_batch

Planned == Range(indices)
AppliedRows == {r \in Planned : lookup_df[r].category \notin {Null, PARSE_ERROR, API_ERROR}}
SentinelRows == {r \in Planned : Sentinel(lookup_df, r)}
StillNullRows == {r \in Planned : lookup_df[r].category = Null}

\* C6 - row conservation: when a run has returned, the processed count is the
\* number of planned rows that carry a label, the error count the number of
\* planned rows that carry a sentinel, and processed + errors + still-null is
\* the number of planned rows.
C6_CountersAgreeWithRows ==
    pc = "done" =>
        /\ processed_count = Cardinality(AppliedRows)
        /\ error_count = Cardinality(SentinelRows)
        /\ processed_count + error_count + Cardinality(StillNullRows)
              = Cardinality(Planned)

LastReply == replies[Len(replies)]
ReplyStatuses == [k \in 1..Len(replies) |-> replies[k].status]

\* C7 - auth refresh: once a batch whose first reply was a 401 and whose resent
\* request was answered 200 with a completion text in the format the prompt
\* asks for has been handled, it ended Applied (no row of it carries a
\* sentinel), after exactly two requests and exactly one credential refresh.
C7_RefreshThenApplied ==
    (BatchHandled /\ ReplyStatuses = <<"401", "200">> /\ LastReply.kind = "list"
        /\ conforming) =>
        /\ outcome = "Applied"
        /\ pc = "handled"
        /\ requests = 2
        /\ refreshes = 1
        /\ \A r \in BatchRows : lookup_df[r] \in {NullRow, LabelRow}

C7_Witness ==
    /\ outcome = "Applied"
    /\ ReplyStatuses = <<"401", "200">>
    /\ conforming
    /\ seen > 0
    /\ refreshes = 1
    /\ \E r \in BatchRows : lookup_df[r] = LabelRow /\ df_at_batch[r] = NullRow

\* C8 - bounded auth retry: no batch causes more than two completion requests
\* or more than one credential refresh, and once a batch whose resent request
\* was answered 401 again, or whose refresh failed, has been handled, it ended
\* ApiFailed with every row of it marked API_ERROR.
C8_BoundedAuthRetry ==
    /\ requests <= 2
    /\ refreshes <= 1
    /\ Len(replies) = requests
    /\ (BatchHandled /\ (ReplyStatuses = <<"401", "401">>
                            \/ response.status = "token_failed")) =>
          /\ outcome = "ApiFailed"
          /\ \A r \in BatchRows : lookup_df[r] = ApiErrorRow

C8_Witness ==
    /\ outcome = "ApiFailed"
    /\ ReplyStatuses = <<"401", "401">>
    /\ requests = 2
    /\ refreshes = 1
    /\ Len(batch_indices) = 2

\* C9 - once a batch whose last reply was a non-auth failure status or a
\* transport exception has been handled, every row of it is marked API_ERROR
\* and the run has not aborted: it is about to go on to the next batch or to the
\* final checkpoint.
C9_FailureMarksApiError ==
    (BatchHandled /\ LastReply.status \in {"500", "transport"}) =>
        /\ outcome = "ApiFailed"
        /\ pc = "handled"
        /\ \A r \in BatchRows : lookup_df[r] = ApiErrorRow

C9_Witness ==
    /\ pc = "pending"
    /\ i > 0
    /\ \E r \in sent : lookup_df[r] = ApiErrorRow /\ df_at_call[r] = NullRow
    /\ \E r \in Planned \ sent : lookup_df[r] = NullRow

\* The batches of the scenario: rows 1..10, 11..20 and 21..25, by the loop
\* variable of the iteration that handles them.
ScenarioBatch(k) ==
    IF k = 0 THEN [j \in 1..10 |-> j]
    ELSE IF k = 10 THEN [j \in 1..10 |-> 10 + j]
    ELSE IF k = 20 THEN [j \in 1..5 |-> 20 + j]
    ELSE <<>>

ScenarioFrameStep ==
    \A r \in 1..25 : r \notin Range(ScenarioBatch(i)) => lookup_df'[r] = lookup_df[r]

ScenarioShape ==
    /\ pc \in {"replied", "checked", "applying", "handled", "crashed"} =>
          batch_indices = ScenarioBatch(i) /\ i \in {0, 10, 20}
    /\ pc = "done" => i = 30
    /\ (BatchHandled /\ LastReply.kind = "not_json") =>
          /\ \A r \in BatchRows : lookup_df[r] = ParseErrorRow
          /\ \A r \in (1..25) \ BatchRows : lookup_df[r] = df_at_batch[r]
          /\ i = 10 => Cardinality({r \in 1..25 : lookup_df[r] # df_at_batch[r]}) = 10

\* C10 - per-batch isolation, on 25 unprocessed rows with rows_per_call = 10:
\* there are exactly the batches 1..10, 11..20 and 21..25; every step taken
\* while a batch is handled, whatever its outcome, leaves the rows of the other
\* batches as they were; and a second response that is not JSON leaves exactly
\* rows 11..20 PARSE_ERROR and the other 20 rows as their own responses left them.
C10_BatchIsolation == [][ScenarioFrameStep]_vars /\ []ScenarioShape

C10_Witness ==
    /\ pc = "done"
    /\ \A r \in 1..10 : lookup_df[r] = LabelRow
    /\ \A r \in 11..20 : lookup_df[r] = ParseErrorRow
    /\ \A r \in 21..24 : lookup_df[r] = LabelRow
    /\ lookup_df[25] = NullRow

AllCategorized(df) == \A r \in DOMAIN df : ~IsNa(df, r)

\* C11 - idempotence: a run of categorize_lookup_table on a table in which every
\* row already has a non-null category sends no request, neither to the
\* completion service nor to the identity service (no token is obtained and no
\* token exchange fails), and returns the table unchanged.
C11_NoCallOnCategorizedTable ==
    (entry = "categorize" /\ AllCategorized(df_at_call)) =>
        /\ token = 0
        /\ pc = "done"
        /\ requests = 0
        /\ sent = {}
        /\ lookup_df = df_at_call

\* C12 - a row whose category is non-null when categorize_lookup_table is
\* called, a label or a PARSE_ERROR/API_ERROR sentinel alike, is never planned,
\* never put in a batch, never sent, and keeps its category and sub_category
\* throughout the run.
C12_CategorizedRowsUntouched ==
    entry = "categorize" =>
        \A r \in DOMAIN lookup_df :
            df_at_call[r].category # Null =>
                /\ r \notin Range(indices)
                /\ r \notin BatchRows
                /\ r \notin sent
                /\ lookup_df[r] = df_at_call[r]

C12_Witness ==
    /\ entry = "categorize"
    /\ pc = "done"
    /\ \E r \in Rows : Sentinel(df_at_call, r) /\ lookup_df[r] = df_at_call[r]
    /\ \E r \in Rows : df_at_call[r] = LabelRow /\ r \notin sent
    /\ \E r \in sent : df_at_call[r] = NullRow /\ lookup_df[r] = LabelRow

Eligible(df) == {r \in DOMAIN df : df[r].category = Null}
BatchInHand == pc \in {"replied", "checked", "applying", "handled", "crashed"}
Window(k) == [j \in 1..Min(rows_per_call, Len(indices) - k) |-> indices[k + j]]

\* The plan of a run of categorize_lookup_table: eligible identifiers only, in
\* table order, none skipped before a planned one, and all of them when no
\* batch_size is passed.
PlanShape ==
    /\ \A a, b \in 1..Len(indices) : a < b => indices[a] < indices[b]
    /\ Range(indices) \subseteq Eligible(df_at_call)
    /\ \A r \in Eligible(df_at_call) :
          (\E q \in Range(indices) : r < q) => r \in Range(indices)
    /\ batch_size = NoBatchSize => Range(indices) = Eligible(df_at_call)

\* The batches cut so far are the consecutive windows of the plan.
WindowShape ==
    /\ i % rows_per_call = 0
    /\ BatchInHand =>
          /\ i < Len(indices)
          /\ batch_indices = Window(i)
          /\ Len(batch_indices) >= 1
          /\ i + rows_per_call <= Len(indices) => Len(batch_indices) = rows_per_call
          /\ sent = {indices[k] : k \in 1..(i + Len(batch_indices))}
    /\ pc = "pending" => i < Len(indices) /\ sent = {indices[k] : k \in 1..i}
    /\ pc = "done" => i >= Len(indices) /\ sent = Range(indices)

\* A batch that is cut holds no identifier of an earlier batch.
FreshBatchStep ==
    (pc = "pending" /\ pc' = "replied") =>
        /\ Range(batch_indices') \cap sent = {}
        /\ Cardinality(Range(batch_indices')) = Len(batch_indices')

\* C13 - batch planning is a partition: in a run of categorize_lookup_table the
\* plan is the eligible identifiers in table order, the batches are its
\* consecutive windows of length rows_per_call (the last possibly shorter, none
\* empty), no identifier is in two batches, and a finished run has put every
\* planned identifier in a batch.
C13_PlanIsPartition ==
    /\ [][entry' = "categorize" => FreshBatchStep]_vars
    /\ []((entry = "categorize" /\ pc # "aborted") => PlanShape /\ WindowShape)

C13_Witness ==
    /\ entry = "categorize"
    /\ pc = "done"
    /\ batch_size = NoBatchSize
    /\ rows_per_call = 2
    /\ indices = <<1, 2, 3>>
    /\ sent = {1, 2, 3}
    /\ i = 4

\* The request of the batch in hand: its identifiers are distinct and in table
\* order, and its line numbered j describes the identifier at 0-based position j.
RequestShape ==
    BatchInHand =>
        /\ \A a, b \in 1..Len(batch_indices) : a < b => batch_indices[a] < batch_indices[b]
        /\ Len(items) = Len(batch_indices)
        /\ \A j \in 0..(Len(batch_indices) - 1) :
              \E l \in Range(items) :
                  /\ l.number = j
                  /\ l.idx = batch_indices[j + 1]
                  /\ \A m \in Range(items) : m.number = j => m = l

\* The loop reads an entry whose index j is a position of the batch: the row the
\* request line numbered j describes gets the entry's category and
\* sub_category (the category alone when the entry lacks sub_category), and
\* no other row changes.
IndexedEntryStep ==
    (pc = "applying" /\ seen' = seen + 1 /\ item'.shape # "no_index"
        /\ item'.index \in 0..(Len(batch_indices) - 1)) =>
        \E l \in Range(items) :
            /\ l.number = item'.index
            /\ lookup_df'[l.idx].category = LabelRow.category
            /\ item'.shape = "ok" => lookup_df'[l.idx] = LabelRow
            /\ \A r \in DOMAIN lookup_df : r # l.idx => lookup_df'[r] = lookup_df[r]

\* C14 - positional mapping: within a batch the identifiers are unique and in
\* table order, the request line numbered j describes the j-th identifier of
\* the batch, and a response entry with index j (0 <= j < batch size) is written
\* to exactly that identifier and to no other row.
C14_PositionalMapping == [][IndexedEntryStep]_vars /\ []RequestShape

C14_Witness ==
    /\ pc = "applying"
    /\ Len(batch_indices) = 2
    /\ batch_indices[2] = 3
    /\ seen = 1
    /\ item = [index |-> 1, shape |-> "ok"]
    /\ lookup_df[3] = LabelRow
    /\ df_at_batch[3] = NullRow
    /\ lookup_df[batch_indices[1]] = NullRow

\* C15 - checkpointing at the end of a run: whenever categorize_lookup_table
\* has returned, a run that found no eligible row included, the persisted
\* checkpoint is the returned table. (The other half of the claim, the write
\* after every 10th batch, is CheckpointDue in EndBatch.)
C15_CheckpointIsReturnedTable ==
    (entry = "categorize" /\ pc = "done") => checkpoint = lookup_df

\* C16 - work is never repeated across a resume: in a run started from the
\* persisted checkpoint after an interruption, no row whose batch had reached a
\* terminal state (label applied, PARSE_ERROR or API_ERROR) in the interrupted
\* run is sent to the completion service again.
C16_NoRepeatAcrossResume ==
    entry = "resume" => sent \cap terminal = {}

\* The positions named by the decoded list, when it had at most one entry.
EntryIndices == IF seen = 0 \/ item.shape = "no_index" THEN {} ELSE {item.index}

\* C17 - partial decode: once a response that decoded to a list (here of at
\* most one entry) has been applied, every row of the batch whose position no
\* entry names still has category and sub_category null, carries no error
\* sentinel, and is planned by the next run.
C17_RowsWithoutEntryStayNull ==
    (outcome = "Applied" /\ seen <= 1) =>
        \A j \in 1..Len(batch_indices) :
            (j - 1) \notin EntryIndices =>
                /\ lookup_df[batch_indices[j]] = NullRow
                /\ batch_indices[j] \in Range(RowsToProcess(lookup_df, NoBatchSize))

\* C18 - work cap: in a run of categorize_lookup_table that was passed a
\* batch_size (any integer >= 0), the plan is exactly the first
\* min(batch_size, number of eligible rows) eligible rows in table order, and
\* no row outside the plan is sent or modified.
C18_PlanIsCappedPrefix ==
    (entry = "categorize" /\ pc # "aborted" /\ batch_size # NoBatchSize) =>
        /\ Len(indices) = Min(batch_size, Cardinality(Eligible(df_at_call)))
        /\ Range(indices) \subseteq Eligible(df_at_call)
        /\ \A r \in Eligible(df_at_call) :
              (\E q \in Range(indices) : r < q) => r \in Range(indices)
        /\ \A r \in DOMAIN lookup_df :
              r \notin Range(indices) => r \notin sent /\ lookup_df[r] = df_at_call[r]

\* Rows that carry a sentinel now and did not when the batch was dispatched.
MarkedByBatch == {r \in DOMAIN lookup_df : Sentinel(lookup_df, r) /\ ~Sentinel(df_at_batch, r)}

\* C19 - in a run started by retry_errors every completion request holds
\* exactly one row, and the handling of one response, failing or malformed,
\* marks at most one row with a sentinel.
C19_RetrySendsOneRowPerRequest ==
    entry = "retry" =>
        /\ BatchInHand => Len(batch_indices) = 1 /\ Len(items) = 1
        /\ Cardinality(MarkedByBatch) <= 1

C19_Witness ==
    /\ entry = "retry"
    /\ outcome = "ParseFailed"
    /\ Len(indices) >= 2
    /\ Len(batch_indices) = 1
    /\ MarkedByBatch = BatchRows
    /\ \E r \in Planned \ sent : lookup_df[r] = NullRow

\* The table categorize_lookup_table was called on: the caller's table, or in a
\* run started by retry_errors that table with its sentinels reset.
TableAtStartup == IF entry = "retry" THEN ClearErrors(df_at_call) ELSE df_at_call

\* retry_errors found no sentinel row and returned without a run.
NothingToRetry == entry = "retry" /\ ErrorRows(df_at_call) = {}

\* C20 - startup auth failure is fatal: when the token exchange at the start
\* of categorize_lookup_table fails (no token was ever obtained), the run has
\* aborted before any batch work: no batch was cut, no completion request sent,
\* no row of the table it was called on modified, and no checkpoint written.
C20_StartupAuthFailureAborts ==
    (entry # "none" /\ token = 0 /\ ~NothingToRetry) =>
        /\ pc = "aborted"
        /\ batch_indices = <<>>
        /\ requests = 0
        /\ sent = {}
        /\ lookup_df = TableAtStartup
        /\ checkpoint = <<>>

C20_Witness ==
    /\ entry = "categorize"
    /\ pc = "aborted"
    /\ token = 0
    /\ batch_size = NoBatchSize
    /\ Cardinality(Eligible(lookup_df)) = 2
    /\ checkpoint = <<>>

\* A step changes the task of at most one batch.
OneTaskStep ==
    \A k \in 1..Len(tasks) :
        (Len(tasks') = Len(tasks) /\ tasks'[k] # tasks[k]) =>
            \A m \in 1..Len(tasks) : m # k => tasks'[m] = tasks[m]

\* C21 - concurrent mode: at most ConcurrencyLimit batches are in flight at any
\* time; the table is not written while a task is still running (it is merged
\* once, after all tasks have completed); and a task that failed neither stops
\* nor alters the others: every step changes one task only, and after the merge
\* the rows of each batch hold the labels of their own task, or are as they
\* were when that task failed.
C21_JoinThenMerge ==
    /\ [][entry' = "concurrent" => OneTaskStep]_vars
    /\ [](entry = "concurrent" =>
            /\ Cardinality(InFlight(tasks)) <= ConcurrencyLimit
            /\ pc = "gathering" => lookup_df = df_at_call
            /\ pc = "done" =>
                  /\ \A k \in 1..Len(tasks) : tasks[k].state = "done"
                  /\ \A k \in 1..Len(tasks) : \A r \in Range(TaskBatch(k)) :
                        lookup_df[r] = IF tasks[k].result = "labels"
                                       THEN LabelRow ELSE df_at_call[r]
                  /\ \A r \in DOMAIN lookup_df :
                        r \notin Range(indices) => lookup_df[r] = df_at_call[r])

C21_Witness ==
    /\ entry = "concurrent"
    /\ pc = "gathering"
    /\ Len(tasks) = 3
    /\ Cardinality(InFlight(tasks)) = ConcurrencyLimit
    /\ \E k \in 1..Len(tasks) : tasks[k].state = "done" /\ tasks[k].result = "empty"
    /\ lookup_df = df_at_call

\* C22 - cost estimate: the cost a run reports is
\* (input tokens / 1,000,000) x 0.15 + (output tokens / 1,000,000) x 0.60
\* dollars, the gpt-4o-mini prices of the per-model table; 1,000,000 input
\* tokens and 0 output tokens cost 0.15 dollars (15,000,000 times 1e-8 dollars).
C22_CostOfRun ==
    (pc = "done" /\ Len(indices) > 0) =>
        /\ total_cost = total_input_tokens * 15 + total_output_tokens * 60
        /\ total_cost =
              CostOf(total_input_tokens, total_output_tokens, Pricing.gpt_4o_mini)
        /\ (total_input_tokens = 1000000 /\ total_output_tokens = 0) =>
              total_cost = 15000000

C22_Witness ==
    /\ pc = "done"
    /\ total_input_tokens = 1000000
    /\ total_output_tokens = 0
    /\ total_cost = 15000000

\* A batch ends, whatever its outcome, with its delay.
DelayAfterBatchStep ==
    (pc = "handled" /\ pc' # "handled") =>
        /\ outcome \in {"Applied", "ParseFailed", "ApiFailed"}
        /\ sleeps' = sleeps + 1

\* The request of a batch is dispatched when every batch before it has been
\* followed by its delay.
DispatchAfterDelayStep ==
    (pc = "pending" /\ pc' = "replied") => sleeps = i \div rows_per_call

\* C23 - a pacing delay follows every batch, whatever its outcome (Applied,
\* ParseFailed or ApiFailed): the completion request of batch k+1 is dispatched
\* only when the delays of batches 1..k have elapsed.
C23_DelayAfterEveryBatch == [][DelayAfterBatchStep /\ DispatchAfterDelayStep]_vars

C23_Witness ==
    /\ pc = "replied"
    /\ rows_per_call = 1
    /\ i = 2
    /\ sleeps = 2
    /\ lookup_df[indices[1]] = ApiErrorRow
    /\ lookup_df[indices[2]] = ParseErrorRow
    /\ df_at_call[indices[1]] = NullRow

\* A completion request is dispatched (the first of a batch, or the resend
\* after a 401): the input total grows by the tokens of the request.
RequestCountedStep ==
    ((pc = "pending" /\ pc' = "replied") \/ requests' = requests + 1) =>
        total_input_tokens' = total_input_tokens + InputTokens(items')

\* The handling of the last reply of a batch goes on past raise_for_status:
\* when that reply was an HTTP response (it has a body), the output total grows
\* by the tokens of the body, whatever the outcome.
BodyCountedStep ==
    (pc \in {"replied", "checked"} /\ pc' \in {"handled", "applying", "crashed"}
        /\ response.status \in {"200", "401", "500"}) =>
        total_output_tokens' = total_output_tokens + OutputTokens(response)

TotalsGrowStep ==
    entry' = entry =>
        /\ total_input_tokens' >= total_input_tokens
        /\ total_output_tokens' >= total_output_tokens

\* C24 - telemetry: the input-token total grows by the encoded size of the
\* request with every completion request dispatched, the resend after a 401
\* included; the output-token total grows by the encoded size of every
\* response body received, whatever the outcome of the batch; neither total
\* decreases during a run.
C24_EveryRequestAndBodyCounted ==
    [][RequestCountedStep /\ BodyCountedStep /\ TotalsGrowStep]_vars

\* A completion request is dispatched (the first of a batch, or the resend
\* after a refresh): it carries the credential of the latest exchange.
CurrentCredentialStep ==
    ((pc = "pending" /\ pc' = "replied") \/ requests' = requests + 1) =>
        headers' = [scheme |-> "Bearer", credential |-> token']

\* A refresh is made only for a 401 answer to the first request of a batch, and
\* once.
OneRefreshStep ==
    (refreshes' # refreshes /\ refreshes' # 0) =>
        /\ response.status = "401"
        /\ requests = 1
        /\ refreshes' = 1

\* C25 - once a refresh has succeeded while batch k is handled, the resend of
\* batch k and every request of the later batches carry the refreshed
\* credential and never an older one; an expiry (a 401 answer to the first
\* request of a batch) causes exactly one refresh.
C25_RefreshedCredentialIsUsed ==
    /\ [][CurrentCredentialStep /\ OneRefreshStep]_vars
    /\ [](pc \in {"replied", "checked", "applying", "handled"} =>
              /\ headers.credential = token
              /\ refreshes <= 1)

\* the first request of a later batch is out after one refresh in an earlier
\* batch of the run, and carries the refreshed credential
C25_Witness ==
    /\ entry = "categorize"
    /\ pc = "replied"
    /\ i > 0
    /\ refreshes = 0
    /\ token = 2
    /\ headers = [scheme |-> "Bearer", credential |-> 2]

\* C26 - checkpoint lag: at every moment of a run, at most 9 batches have
\* reached a terminal state (Applied, ParseFailed, ApiFailed) without being in
\* the persisted checkpoint.
C26_LagAtMostNine == unsaved <= CheckpointEvery - 1

\* C26, amended - the lag is at most 10 at every moment: it is at most 9
\* whenever the next batch is about to be cut, and 10 only between the moment
\* the 10th batch since the last checkpoint becomes terminal and the write of
\* the checkpoint that ends its iteration.
C26_LagAtMostTen ==
    /\ unsaved <= CheckpointEvery
    /\ pc = "pending" => unsaved <= CheckpointEvery - 1
    /\ unsaved = CheckpointEvery =>
          pc = "handled" /\ CheckpointDue(i, rows_per_call)

\* the 10th batch is terminal and the checkpoint still holds none of the ten
C26_Witness ==
    /\ pc = "handled"
    /\ unsaved = CheckpointEvery
    /\ i = CheckpointEvery - 1
    /\ checkpoint = <<>>

\* ceil(n / rows_per_call) for the n planned rows of the run
PlannedBatches == (Len(indices) + rows_per_call - 1) \div rows_per_call

\* the batches the run has cut so far
StartedBatches ==
    IF pc \in {"replied", "checked", "applying", "handled", "crashed"}
    THEN (i \div rows_per_call) + 1
    ELSE i \div rows_per_call

Running == pc \in {"pending", "replied", "checked", "applying", "handled"}

\* the steps a batch can still take, by its position
PhaseRank ==
    CASE pc = "pending"  -> MaxEntries + 5
      [] pc = "replied"  -> MaxEntries + 4
      [] pc = "checked"  -> MaxEntries + 3
      [] pc = "applying" -> (MaxEntries - seen) + 2
      [] pc = "handled"  -> 1
      [] OTHER           -> 0

\* a bound on the steps the run can still take
RunRank ==
    IF Running
    THEN ((Len(indices) - i + rows_per_call - 1) \div rows_per_call - 1)
             * (MaxEntries + 6) + PhaseRank
    ELSE 0

\* C27 - termination and call bounds: a run whose first token exchange has
\* succeeded, on n planned rows with rows_per_call >= 1, ends after at most
\* ceil(n / rows_per_call) batches (every step of the run lowers a natural
\* number, and a run that returns has cut exactly that many batches), with at
\* most 2 completion requests per batch and at most 1 + (number of batches)
\* credential exchanges in total.
C27_TerminatesWithinCallBounds ==
    /\ [][Running => (RunRank' < RunRank /\ RunRank' >= 0)]_vars
    /\ [](pc \in {"pending", "replied", "checked", "applying", "handled",
                  "crashed", "done"} =>
              /\ rows_per_call >= 1
              /\ StartedBatches <= PlannedBatches
              /\ requests <= 2
              /\ exchanges <= 1 + StartedBatches
              /\ pc = "done" => StartedBatches = PlannedBatches)

\* a run on three planned rows, two per request, has returned after its two
\* batches with one refresh in each: three credential exchanges
C27_Witness ==
    /\ pc = "done"
    /\ entry = "categorize"
    /\ Len(indices) = 3
    /\ rows_per_call = 2
    /\ StartedBatches = 2
    /\ exchanges = 3

====
